---- MODULE Spec2Model ----
(***************************************************************************)
(* The browser client of the Granite video pipeline.                      *)
(*                                                                         *)
(* The repository ships two page scripts.  The static prototype            *)
(* (src/frontend/script.js) simulates the pipeline with timers; the        *)
(* backend-integrated script (src/unnamed/part_001) submits to             *)
(* /api/generate, polls /api/status/<job> and loads /api/video/<job>.      *)
(* One browser tab is modelled: the current page, localStorage, the form   *)
(* of the create page, the closure of the process page (jobId, lastStep,   *)
(* pollCount), its pending timers and in-flight requests, and the DOM      *)
(* nodes the handlers write.  Server answers are inputs.                   *)
(*                                                                         *)
(* Text is a sequence of tokens, so that trimming and the JavaScript       *)
(* notion of a falsy string are computed and not assumed.                  *)
(***************************************************************************)
EXTENDS Integers, Sequences, FiniteSets, TLC

\* ------------------------------------------------------------------ bounds
MaxJobs == 2
MaxPolls == 3
MaxDescLen == 2

\* --------------------------------------------------------------- constants
FirstPollMs == 1000
ProgressPollMs == 3000
RetryPollMs == 5000
RedirectMs == 2000
SimulatedMs == 4000

\* -------------------------------------------------------------------- text
None == <<"null">>
Space == " "
Chars == {Space, "t"}
\* the placeholder, an em dash in the source
Dash == <<"--">>
GeneratedVideo == <<"Generated Video">>
UntitledProject == <<"Untitled Project">>
Processing == <<"processing">>
NoAlert == <<>>
PleaseUpload == <<"Please upload a PDF document or enter a topic description.">>
FailedToStart == <<"Failed to start pipeline">>

\* the files the user can pick
Files == {<<"a.pdf">>}

RECURSIVE TextsOfLen(_)
TextsOfLen(n) ==
  IF n = 0 THEN {<<>>}
  ELSE {Append(s, c) : s \in TextsOfLen(n - 1), c \in Chars}

RawDescriptions == UNION {TextsOfLen(n) : n \in 0..MaxDescLen}

\* a JavaScript value is falsy when null/undefined or the empty string
Truthy(v) == v # None /\ v # <<>>

\* a || b
Or(a, b) == IF Truthy(a) THEN a ELSE b

RECURSIVE TrimStart(_)
TrimStart(s) ==
  IF s # <<>> /\ Head(s) = Space THEN TrimStart(Tail(s)) ELSE s

RECURSIVE TrimEnd(_)
TrimEnd(s) ==
  IF s # <<>> /\ s[Len(s)] = Space THEN TrimEnd(SubSeq(s, 1, Len(s) - 1)) ELSE s

\* String.prototype.trim
Trim(s) == TrimEnd(TrimStart(s))

JobIdOf(n) == <<"job-" \o ToString(n)>>

\* ---------------------------------------------------------------- pipeline
stepNames == <<"extraction", "planning", "animation", "narration", "composition", "quality">>
StepCount == Len(stepNames)
Steps == {"queued"} \cup {stepNames[i] : i \in 1..StepCount}
Statuses == {"queued", "running", "completed", "failed"}

\* stepNames.indexOf, 1-based; 0 stands for JavaScript's -1
IndexOf(step) ==
  IF \E i \in 1..StepCount : stepNames[i] = step
  THEN CHOOSE i \in 1..StepCount : stepNames[i] = step
  ELSE 0

DefaultBadges == [i \in 1..StepCount |-> "Pending"]

VARIABLES
  frontend,          \* which script the pages load: "prototype" or "granite"
  page,              \* the page shown: "create", "process" or "output"
  loaded,            \* whether the page's DOMContentLoaded handler has run
  localStorage,      \* the keys the scripts use, None when unset
  fileInput,         \* create page: the selected file's name, or None
  topicDescription,  \* create page: the raw textarea value
  btnDisabled,       \* create page: generateBtn.disabled
  alertMsg,          \* the text of the alert dialog that is open, or NoAlert
  submitReqs,        \* in-flight POST /api/generate bodies
  nextJob,           \* number of jobs the server has created
  jobFile,           \* for each created job, the file submitted with it, or None
  jobId,             \* process page: the closure's jobId
  sourceHash,        \* process page: text of #source-hash
  lastStep,          \* process page: the closure's lastStep
  pollCount,         \* process page: the closure's pollCount
  badges,            \* process page: the badge text of each of the six steps
  terminalError,     \* process page: the reason of the [Error] terminal line
  timers,            \* pending setTimeout callbacks of this page
  statusReqs,        \* in-flight GET /api/status/<id>, by id
  lastPolled,        \* the id of the most recent status request sent
  monotone,          \* the stages answered on this page load never decreased
  lastOutcome,       \* how the latest status request of this page load ended
  lastBody,          \* the latest 2xx status body received on this page load
  videoSrc,          \* output page: the job id in video.src, or None
  projectTitle       \* output page: text of #project-title

formVars == <<fileInput, topicDescription, btnDisabled, alertMsg, submitReqs>>
serverVars == <<nextJob, jobFile>>
processVars == <<jobId, sourceHash, lastStep, pollCount, badges, terminalError,
                 timers, statusReqs, monotone, lastOutcome, lastBody>>
outputVars == <<videoSrc, projectTitle>>
vars == <<frontend, page, loaded, localStorage, formVars, serverVars,
          processVars, lastPolled, outputVars>>

NoBody == [status |-> "", current_step |-> "", error |-> None, message |-> None]

EmptyStorage ==
  [graniteJobId |-> None, currentProjectTopic |-> None,
   graniteFileName |-> None, currentProjectStatus |-> None]

\* a freshly requested document: nothing of the previous page survives
FreshForm ==
  /\ fileInput' = None
  /\ topicDescription' = <<>>
  /\ btnDisabled' = FALSE
  /\ alertMsg' = NoAlert
  /\ submitReqs' = <<>>

FreshProcess ==
  /\ jobId' = None
  /\ sourceHash' = <<>>
  /\ lastStep' = ""
  /\ pollCount' = 0
  /\ badges' = DefaultBadges
  /\ terminalError' = None
  /\ timers' = <<>>
  /\ statusReqs' = <<>>
  /\ monotone' = TRUE
  /\ lastOutcome' = ""
  /\ lastBody' = NoBody

FreshOutput ==
  /\ videoSrc' = None
  /\ projectTitle' = <<>>

\* window.location.href = target
Navigate(target) ==
  /\ page' = target
  /\ loaded' = FALSE
  /\ FreshForm
  /\ FreshProcess
  /\ FreshOutput

Init ==
  /\ frontend \in {"prototype", "granite"}
  /\ page = "create"
  /\ loaded = FALSE
  /\ localStorage = EmptyStorage
  /\ fileInput = None
  /\ topicDescription = <<>>
  /\ btnDisabled = FALSE
  /\ alertMsg = NoAlert
  /\ submitReqs = <<>>
  /\ nextJob = 0
  /\ jobFile = <<>>
  /\ jobId = None
  /\ sourceHash = <<>>
  /\ lastStep = ""
  /\ pollCount = 0
  /\ badges = DefaultBadges
  /\ terminalError = None
  /\ timers = <<>>
  /\ statusReqs = <<>>
  /\ lastPolled = None
  /\ monotone = TRUE
  /\ lastOutcome = ""
  /\ lastBody = NoBody
  /\ videoSrc = None
  /\ projectTitle = <<>>

\* ------------------------------------------------------------------- user
\* the user follows a link to create.html or process.html
UserOpens ==
  /\ alertMsg = NoAlert
  /\ \E target \in {"create", "process"} : Navigate(target)
  /\ UNCHANGED <<frontend, localStorage, serverVars, lastPolled>>

\* the user picks a file (or clears the selection) on the create page
SelectFile ==
  /\ page = "create" /\ loaded /\ alertMsg = NoAlert
  /\ \E f \in Files \cup {None} : fileInput' = f
  /\ UNCHANGED <<frontend, page, loaded, localStorage, topicDescription,
                 btnDisabled, alertMsg, submitReqs, serverVars, processVars,
                 lastPolled, outputVars>>

\* the user edits the description on the create page
TypeDescription ==
  /\ page = "create" /\ loaded /\ alertMsg = NoAlert
  /\ \E d \in RawDescriptions : topicDescription' = d
  /\ UNCHANGED <<frontend, page, loaded, localStorage, fileInput,
                 btnDisabled, alertMsg, submitReqs, serverVars, processVars,
                 lastPolled, outputVars>>

\* the user closes the alert dialog
DismissAlert ==
  /\ alertMsg # NoAlert
  /\ alertMsg' = NoAlert
  /\ UNCHANGED <<frontend, page, loaded, localStorage, fileInput,
                 topicDescription, btnDisabled, submitReqs, serverVars,
                 processVars, lastPolled, outputVars>>

\* ------------------------------------------------------------ create page
\* DOMContentLoaded on create.html: both scripts only attach listeners
LoadCreate ==
  /\ page = "create" /\ ~loaded
  /\ loaded' = TRUE
  /\ UNCHANGED <<frontend, page, localStorage, formVars, serverVars,
                 processVars, lastPolled, outputVars>>

\* variant: the description is read without trim()
DescriptionUntrimmed(raw) == Or(raw, <<>>)

\* the description the granite click handler reads
DescriptionOf(raw) == Or(Trim(raw), <<>>)

\* if (!file && !description)
IsRejected(file, description) == ~Truthy(file) /\ ~Truthy(description)

\* the FormData the granite click handler builds from its file and description
FormDataOf(file, description) ==
  [file |-> IF Truthy(file) THEN file ELSE None,
   description |-> IF Truthy(description) THEN description ELSE None]

\* the localStorage writes after a successful submission
StoreSubmission(ls, id, file, description) ==
  [ls EXCEPT !.graniteJobId = id,
             !.currentProjectTopic = Or(description, Or(file, GeneratedVideo)),
             !.graniteFileName = IF Truthy(file) THEN file ELSE @]

\* variant: the click handler forgets generateBtn.disabled = true
GenerateClickLeavesEnabled ==
  /\ frontend = "granite" /\ page = "create" /\ loaded /\ alertMsg = NoAlert
  /\ ~btnDisabled
  /\ LET description == DescriptionOf(topicDescription)
         file == fileInput
     IN IF IsRejected(file, description)
        THEN /\ alertMsg' = PleaseUpload
             /\ UNCHANGED submitReqs
        ELSE /\ submitReqs' = Append(submitReqs, FormDataOf(file, description))
             /\ UNCHANGED alertMsg
  /\ UNCHANGED <<frontend, page, loaded, localStorage, fileInput,
                 topicDescription, btnDisabled, serverVars, processVars,
                 lastPolled, outputVars>>

\* granite: generateBtn click, up to the await of fetch
GenerateClick ==
  /\ frontend = "granite" /\ page = "create" /\ loaded /\ alertMsg = NoAlert
  /\ ~btnDisabled
  /\ LET description == DescriptionOf(topicDescription)
         file == fileInput
     IN IF IsRejected(file, description)
        THEN /\ alertMsg' = PleaseUpload
             /\ UNCHANGED <<btnDisabled, submitReqs>>
        ELSE /\ btnDisabled' = TRUE
             /\ submitReqs' = Append(submitReqs, FormDataOf(file, description))
             /\ UNCHANGED alertMsg
  /\ UNCHANGED <<frontend, page, loaded, localStorage, fileInput,
                 topicDescription, serverVars, processVars, lastPolled,
                 outputVars>>

\* granite: the submission is answered 200 {job_id}; the handler resumes with
\* the file and description it captured at the click
SubmitOk ==
  /\ frontend = "granite" /\ page = "create" /\ loaded /\ alertMsg = NoAlert
  /\ submitReqs # <<>>
  /\ nextJob < MaxJobs
  /\ LET body == Head(submitReqs)
         id == JobIdOf(nextJob + 1)
     IN /\ nextJob' = nextJob + 1
        /\ jobFile' = Append(jobFile, body.file)
        /\ localStorage' = StoreSubmission(localStorage, id, body.file,
                                           Or(body.description, <<>>))
  /\ Navigate("process")
  /\ UNCHANGED <<frontend, lastPolled>>

\* variant: the catch block forgets generateBtn.disabled = false
SubmitCatchKeepsDisabled(message) ==
  /\ alertMsg' = <<"Error: ">> \o message
  /\ submitReqs' = Tail(submitReqs)
  /\ UNCHANGED <<frontend, page, loaded, localStorage, fileInput,
                 topicDescription, btnDisabled, serverVars, processVars,
                 lastPolled, outputVars>>

\* the catch block of the granite click handler
SubmitCatch(message) ==
  /\ alertMsg' = <<"Error: ">> \o message
  /\ btnDisabled' = FALSE
  /\ submitReqs' = Tail(submitReqs)
  /\ UNCHANGED <<frontend, page, loaded, localStorage, fileInput,
                 topicDescription, serverVars, processVars, lastPolled,
                 outputVars>>

\* granite: the submission is answered non-OK (HTTP 400 and the like)
SubmitNotOk ==
  /\ frontend = "granite" /\ page = "create" /\ loaded /\ alertMsg = NoAlert
  /\ submitReqs # <<>>
  /\ \E detail \in {None, <<"No input provided">>} :
       SubmitCatch(Or(detail, FailedToStart))

\* granite: fetch rejects, or a body is not JSON
SubmitThrows ==
  /\ frontend = "granite" /\ page = "create" /\ loaded /\ alertMsg = NoAlert
  /\ submitReqs # <<>>
  /\ SubmitCatch(<<"Failed to fetch">>)

\* prototype: generateBtn click
PrototypeClick ==
  /\ frontend = "prototype" /\ page = "create" /\ loaded
  /\ localStorage' =
       [localStorage EXCEPT
          !.currentProjectTopic = Or(topicDescription, UntitledProject),
          !.currentProjectStatus = Processing]
  /\ Navigate("process")
  /\ UNCHANGED <<frontend, serverVars, lastPolled>>

\* ----------------------------------------------------------- process page
PollTimer(ms) == [fn |-> "pollStatus", ms |-> ms]
RedirectTimer(ms) == [fn |-> "redirect", ms |-> ms]

\* the sequence without its i-th element
Without(seq, i) == SubSeq(seq, 1, i - 1) \o SubSeq(seq, i + 1, Len(seq))

\* localStorage.getItem("graniteFileName") || dash
SourceFileName(ls) == Or(ls.graniteFileName, Dash)

\* DOMContentLoaded on process.html
LoadProcess ==
  /\ page = "process" /\ ~loaded
  /\ IF frontend = "prototype"
     THEN /\ loaded' = TRUE
          /\ timers' = <<RedirectTimer(SimulatedMs)>>
          /\ UNCHANGED <<page, formVars, jobId, sourceHash, lastStep,
                         pollCount, badges, terminalError, statusReqs,
                         monotone, lastOutcome, lastBody, outputVars>>
     ELSE IF ~Truthy(localStorage.graniteJobId)
     THEN Navigate("create")
     ELSE /\ loaded' = TRUE
          /\ jobId' = localStorage.graniteJobId
          /\ sourceHash' = SourceFileName(localStorage)
          /\ lastStep' = ""
          /\ pollCount' = 0
          /\ timers' = <<PollTimer(FirstPollMs)>>
          /\ UNCHANGED <<page, formVars, badges, terminalError, statusReqs,
                         monotone, lastOutcome, lastBody, outputVars>>
  /\ UNCHANGED <<frontend, localStorage, serverVars, lastPolled>>

\* variant: idx <= currentIdx in place of idx < currentIdx
updatePipelineStepInclusive(b, currentStep) ==
  LET currentIdx == IndexOf(currentStep)
  IN IF currentIdx = 0 THEN b
     ELSE [idx \in 1..StepCount |->
             IF idx <= currentIdx THEN "Success" ELSE b[idx]]

\* updatePipelineStep(currentStep) on the badge texts
updatePipelineStep(b, currentStep) ==
  LET currentIdx == IndexOf(currentStep)
  IN IF currentIdx = 0 THEN b
     ELSE [idx \in 1..StepCount |->
             IF idx < currentIdx THEN "Success"
             ELSE IF idx = currentIdx THEN "Processing"
             ELSE b[idx]]

\* the completed branch: every badge reads Success
MarkAllComplete(b) == [idx \in 1..StepCount |-> "Success"]

\* `${v}` in a template literal
Str(v) == IF v = None THEN <<"undefined">> ELSE v

\* variant: data.message || data.error
FailureReasonMessageFirst(data) == Str(Or(data.message, data.error))

\* the reason in the [Error] terminal line
FailureReason(data) == Str(Or(data.error, data.message))

\* the guard of the pipeline-steps update
StepChanged(data, last) ==
  data.current_step # last /\ data.current_step # "queued"

\* variant: the completed branch lacks its return
ScheduleAfterCompletedFallsThrough(data, t) ==
  IF data.status = "completed"
  THEN Append(Append(t, RedirectTimer(RedirectMs)), PollTimer(ProgressPollMs))
  ELSE IF data.status = "failed" THEN t
  ELSE Append(t, PollTimer(ProgressPollMs))

\* variant: the redirect is scheduled for every terminal status
ScheduleAfterRedirectsOnFailed(data, t) ==
  IF data.status \in {"completed", "failed"} THEN Append(t, RedirectTimer(RedirectMs))
  ELSE Append(t, PollTimer(ProgressPollMs))

\* variant: polling continues only while status is running
ScheduleAfterStopsWhenQueued(data, t) ==
  IF data.status = "completed" THEN Append(t, RedirectTimer(RedirectMs))
  ELSE IF data.status = "running" THEN Append(t, PollTimer(ProgressPollMs))
  ELSE t

\* what pollStatus schedules after a 2xx answer
ScheduleAfter(data, t) ==
  IF data.status = "completed" THEN Append(t, RedirectTimer(RedirectMs))
  ELSE IF data.status = "failed" THEN t
  ELSE Append(t, PollTimer(ProgressPollMs))

\* variant: the 404 branch lacks its return and reaches the catch block too
ScheduleOnNotFoundFallsThrough(t) ==
  Append(Append(t, PollTimer(RetryPollMs)), PollTimer(RetryPollMs))

\* what pollStatus schedules on HTTP 404
ScheduleOnNotFound(t) == Append(t, PollTimer(RetryPollMs))

\* variant: the catch block gives up
ScheduleOnCatchGivesUp(t) == t

\* what the catch block of pollStatus schedules
ScheduleOnCatch(t) == Append(t, PollTimer(RetryPollMs))

\* the answers of GET /api/status/<id>; error accompanies failed only
StatusResponses ==
  {r \in [status : Statuses, current_step : Steps,
          error : {None, <<>>, <<"stage failed">>},
          message : {None, <<"working">>}] :
     r.status # "failed" => (r.error = None /\ r.message = <<"working">>)}

\* a pollStatus timer fires: pollStatus runs up to the await of fetch
PollStatus ==
  /\ frontend = "granite" /\ page = "process" /\ loaded
  /\ pollCount < MaxPolls
  /\ \E i \in 1..Len(timers) :
       /\ timers[i].fn = "pollStatus"
       /\ timers' = Without(timers, i)
  /\ statusReqs' = Append(statusReqs, jobId)
  /\ lastPolled' = jobId
  /\ UNCHANGED <<frontend, page, loaded, localStorage, formVars, serverVars,
                 jobId, sourceHash, lastStep, pollCount, badges,
                 terminalError, monotone, lastOutcome, lastBody, outputVars>>

\* the status request is answered 2xx with the JSON body data
PollOkWith(data) ==
  /\ frontend = "granite" /\ page = "process" /\ loaded
  /\ statusReqs # <<>>
  /\ LET changed == StepChanged(data, lastStep)
         shown == IF changed THEN updatePipelineStep(badges, data.current_step)
                  ELSE badges
     IN /\ pollCount' = pollCount + 1
        /\ lastStep' = IF changed THEN data.current_step ELSE lastStep
        /\ badges' = IF data.status = "completed" THEN MarkAllComplete(shown)
                     ELSE shown
        /\ terminalError' = IF data.status = "failed" THEN FailureReason(data)
                            ELSE terminalError
        /\ timers' = ScheduleAfter(data, timers)
        /\ monotone' = (monotone /\ IndexOf(data.current_step) >= IndexOf(lastStep))
  /\ lastOutcome' = data.status
  /\ lastBody' = data
  /\ statusReqs' = Tail(statusReqs)
  /\ UNCHANGED <<frontend, page, loaded, localStorage, formVars, serverVars,
                 jobId, sourceHash, lastPolled, outputVars>>

PollOk == \E data \in StatusResponses : PollOkWith(data)

\* the status request is answered HTTP 404
PollNotFound ==
  /\ frontend = "granite" /\ page = "process" /\ loaded
  /\ statusReqs # <<>>
  /\ statusReqs' = Tail(statusReqs)
  /\ timers' = ScheduleOnNotFound(timers)
  /\ lastOutcome' = "404"
  /\ UNCHANGED <<frontend, page, loaded, localStorage, formVars, serverVars,
                 jobId, sourceHash, lastStep, pollCount, badges,
                 terminalError, monotone, lastBody, lastPolled, outputVars>>

\* the status request is answered with another non-OK status, fetch rejects,
\* or the body is not JSON: all three reach the catch block
PollCatch ==
  /\ frontend = "granite" /\ page = "process" /\ loaded
  /\ statusReqs # <<>>
  /\ statusReqs' = Tail(statusReqs)
  /\ timers' = ScheduleOnCatch(timers)
  /\ lastOutcome' = "error"
  /\ UNCHANGED <<frontend, page, loaded, localStorage, formVars, serverVars,
                 jobId, sourceHash, lastStep, pollCount, badges,
                 terminalError, monotone, lastBody, lastPolled, outputVars>>

\* a redirect timer fires: window.location.href = "output.html"
Redirect ==
  /\ page = "process" /\ loaded
  /\ \E i \in 1..Len(timers) : timers[i].fn = "redirect"
  /\ Navigate("output")
  /\ UNCHANGED <<frontend, localStorage, serverVars, lastPolled>>

\* ------------------------------------------------------------ output page
\* the job whose video the output page requests
VideoOf(ls) == IF Truthy(ls.graniteJobId) THEN ls.graniteJobId ELSE None

\* DOMContentLoaded on output.html
LoadOutput ==
  /\ page = "output" /\ ~loaded
  /\ loaded' = TRUE
  /\ projectTitle' = Or(localStorage.currentProjectTopic, GeneratedVideo)
  /\ videoSrc' = IF frontend = "granite" THEN VideoOf(localStorage) ELSE None
  /\ UNCHANGED <<frontend, page, localStorage, formVars, serverVars,
                 processVars, lastPolled>>

Next ==
  \/ UserOpens
  \/ SelectFile
  \/ TypeDescription
  \/ DismissAlert
  \/ LoadCreate
  \/ GenerateClick
  \/ SubmitOk
  \/ SubmitNotOk
  \/ SubmitThrows
  \/ PrototypeClick
  \/ LoadProcess
  \/ PollStatus
  \/ PollOk
  \/ PollNotFound
  \/ PollCatch
  \/ Redirect
  \/ LoadOutput

Spec == Init /\ [][Next]_vars
\* ================================================================ claims
PollTimers == {i \in 1..Len(timers) : timers[i].fn = "pollStatus"}
RedirectTimers == {i \in 1..Len(timers) : timers[i].fn = "redirect"}
OnGraniteProcess == frontend = "granite" /\ page = "process" /\ loaded

\* C1: once pollStatus has received status completed, no status request is
\* pending or in flight and the only timer is the 2000 ms redirect to the
\* output page; the output page that the redirect loads requests the video of
\* the job id that was polled, which is the stored graniteJobId.
C1_CompletedStopsPollingAndShowsPolledJob ==
  /\ (OnGraniteProcess /\ lastOutcome = "completed") =>
       /\ timers = <<[fn |-> "redirect", ms |-> 2000]>>
       /\ statusReqs = <<>>
       /\ lastPolled = jobId
       /\ jobId = localStorage.graniteJobId
  /\ (frontend = "granite" /\ page = "output") =>
       /\ lastPolled = localStorage.graniteJobId
       /\ lastPolled # None
       /\ loaded => videoSrc = lastPolled

C1_Witness ==
  /\ frontend = "granite" /\ page = "output" /\ loaded
  /\ videoSrc = JobIdOf(2)
  /\ lastPolled = JobIdOf(2)
\* a value the failure line can name: neither missing nor empty
Present(v) == v # None /\ v # <<>>

\* C2: when pollStatus has received status failed, the [Error] terminal line
\* names the response's error, or its message when the error is missing or
\* empty; no status request is pending or in flight, no timer is pending, and
\* the page does not go to the output page.
C2_FailedSurfacesReasonAndStops ==
  /\ []((OnGraniteProcess /\ lastOutcome = "failed") =>
          /\ timers = <<>>
          /\ statusReqs = <<>>
          /\ terminalError # None
          /\ Present(lastBody.error) => terminalError = lastBody.error
          /\ (~Present(lastBody.error) /\ Present(lastBody.message)) =>
               terminalError = lastBody.message)
  /\ [][(page = "process" /\ lastOutcome = "failed") => page' # "output"]_vars

C2_Witness ==
  /\ OnGraniteProcess /\ lastOutcome = "failed"
  /\ lastBody.error = <<>>
  /\ terminalError = <<"working">>
  /\ lastStep = "narration"

\* C3 as stated, for every process page: a redirect to the output page is
\* pending only after a status response with status completed.
C3_RedirectOnlyAfterCompleted ==
  (page = "process" /\ RedirectTimers # {}) => lastOutcome = "completed"

\* C3, amended: with the backend-integrated script the process page has a
\* redirect to the output page pending only after a status response with
\* status completed, and it leaves for the output page only then; the static
\* prototype's process page sends no status request and always has its
\* 4000 ms redirect pending.
C3_GraniteRedirectOnlyAfterCompleted ==
  /\ []((frontend = "granite" /\ page = "process" /\ RedirectTimers # {}) =>
          lastOutcome = "completed")
  /\ [][(frontend = "granite" /\ page = "process" /\ page' = "output") =>
          lastOutcome = "completed"]_vars
  /\ []((frontend = "prototype" /\ page = "process" /\ loaded) =>
          /\ timers = <<[fn |-> "redirect", ms |-> 4000]>>
          /\ statusReqs = <<>>
          /\ lastOutcome = "")

C3_Witness ==
  /\ OnGraniteProcess
  /\ lastOutcome = "completed"
  /\ RedirectTimers # {}
  /\ pollCount = 3

\* C4: when a status request ends in HTTP 404, another non-OK status, or a
\* transport or parse error, the only thing scheduled afterwards is one
\* pollStatus 5000 ms later; the page, localStorage, the closure's jobId, the
\* last displayed step and the badges stay as they were.
C4_FailedPollRetriesIn5000 ==
  /\ [][(PollNotFound \/ PollCatch) =>
          /\ timers' = <<[fn |-> "pollStatus", ms |-> 5000]>>
          /\ statusReqs' = <<>>
          /\ page' = page
          /\ localStorage' = localStorage
          /\ jobId' = jobId
          /\ lastStep' = lastStep
          /\ badges' = badges]_vars
  /\ []((OnGraniteProcess /\ lastOutcome \in {"404", "error"}) =>
          \/ timers = <<[fn |-> "pollStatus", ms |-> 5000]>> /\ statusReqs = <<>>
          \/ timers = <<>> /\ statusReqs = <<jobId>>)

C4_Witness ==
  /\ OnGraniteProcess
  /\ lastOutcome = "404"
  /\ timers = <<[fn |-> "pollStatus", ms |-> 5000]>>
  /\ lastStep = "planning"

\* C5: after a 2xx status response whose status is neither completed nor
\* failed the next pollStatus is scheduled 3000 ms later; the process page
\* is without a pending or in-flight poll only before its first timer was set
\* or after a response with status completed or failed.
C5_InProgressPollsIn3000 ==
  /\ (OnGraniteProcess /\ lastOutcome \in Statuses \ {"completed", "failed"}) =>
       \/ timers = <<[fn |-> "pollStatus", ms |-> 3000]>> /\ statusReqs = <<>>
       \/ timers = <<>> /\ statusReqs = <<jobId>>
  /\ (OnGraniteProcess /\ PollTimers = {} /\ statusReqs = <<>>) =>
       lastOutcome \in {"completed", "failed"}

C5_Witness ==
  /\ OnGraniteProcess
  /\ lastOutcome = "running"
  /\ pollCount = 2
  /\ timers = <<[fn |-> "pollStatus", ms |-> 3000]>>

\* C9: on the process page the pending pollStatus timers and the in-flight
\* status requests number at most one together.
C9_AtMostOnePollOutstanding ==
  page = "process" => Cardinality(PollTimers) + Len(statusReqs) <= 1

C9_Witness ==
  /\ OnGraniteProcess
  /\ Len(statusReqs) = 1
  /\ lastOutcome = "error"
  /\ pollCount = 2
\* the text consists of spaces only (the empty text included)
Blank(s) == \A i \in 1..Len(s) : s[i] = Space

\* d is raw without its leading and trailing spaces
IsTrimOf(d, raw) ==
  /\ d # <<>> /\ Head(d) # Space /\ d[Len(d)] # Space
  /\ \E i \in 0..Len(raw) : \E j \in i..Len(raw) :
       /\ d = SubSeq(raw, i + 1, j)
       /\ Blank(SubSeq(raw, 1, i))
       /\ Blank(SubSeq(raw, j + 1, Len(raw)))

NothingEntered == fileInput = None /\ Blank(topicDescription)

\* C6 as stated, for every Generate button: a click with no file and a blank
\* description stores nothing and stays on the create page.
C6_BlankClickRejected ==
  [][((GenerateClick \/ PrototypeClick) /\ NothingEntered) =>
       /\ localStorage' = localStorage
       /\ page' = "create"
       /\ submitReqs' = submitReqs]_vars

\* C6, amended: with the backend-integrated script a click with no file and
\* a blank description sends no request, stores nothing, creates no job and
\* stays on the create page; every request sent carries the selected file if
\* there is one and the trimmed description if it is not blank, and nothing
\* else, and at least one of the two.  The static prototype's click never
\* sends a request and always stores currentProjectTopic and
\* currentProjectStatus and goes to the process page.
C6_GraniteBlankClickRejected ==
  /\ [][(GenerateClick /\ NothingEntered) =>
          /\ submitReqs' = submitReqs
          /\ localStorage' = localStorage
          /\ serverVars' = serverVars
          /\ page' = "create"
          /\ alertMsg' = PleaseUpload]_vars
  /\ [][(GenerateClick /\ ~NothingEntered) =>
          /\ Len(submitReqs') = Len(submitReqs) + 1
          /\ LET body == submitReqs'[Len(submitReqs')]
             IN /\ body.file = fileInput
                /\ Blank(topicDescription) => body.description = None
                /\ ~Blank(topicDescription) =>
                     IsTrimOf(body.description, topicDescription)]_vars
  /\ [](\A i \in 1..Len(submitReqs) :
          submitReqs[i].file # None \/ submitReqs[i].description # None)
  /\ [][PrototypeClick =>
          /\ page' = "process"
          /\ submitReqs' = <<>>
          /\ localStorage'.currentProjectStatus = Processing
          /\ localStorage'.currentProjectTopic # None]_vars

C6_Witness ==
  /\ frontend = "granite" /\ page = "create"
  /\ alertMsg = PleaseUpload
  /\ topicDescription = <<Space, Space>>
  /\ fileInput = None
  /\ localStorage.graniteJobId = JobIdOf(1)

\* C7: when the submission is answered non-OK or fails in transport, the
\* handler stores nothing (graniteJobId, currentProjectTopic and
\* graniteFileName keep their values), creates no job, stays on the create
\* page and re-enables the Generate button.
C7_FailedSubmissionStoresNothing ==
  /\ [][(SubmitNotOk \/ SubmitThrows) =>
          /\ localStorage' = localStorage
          /\ serverVars' = serverVars
          /\ page' = "create" /\ loaded'
          /\ btnDisabled /\ ~btnDisabled'
          /\ submitReqs' = <<>>]_vars
  /\ []((page = "create" /\ alertMsg # NoAlert /\ alertMsg # PleaseUpload) =>
          ~btnDisabled /\ submitReqs = <<>>)

C7_Witness ==
  /\ frontend = "granite" /\ page = "create" /\ loaded
  /\ alertMsg = <<"Error: ", "No input provided">>
  /\ ~btnDisabled
  /\ localStorage.graniteJobId = JobIdOf(1)
  /\ localStorage.graniteFileName = <<"a.pdf">>
\* a step in which pollStatus processed a 2xx body (now lastBody')
Answered == page = "process" /\ pollCount' = pollCount + 1

\* the display the claim describes for a body naming the k-th stage
ShowsStage(k) ==
  \A i \in 1..StepCount :
    /\ i < k => badges'[i] = "Success"
    /\ i = k => badges'[i] = "Processing"
    /\ i > k => badges'[i] = badges[i]

\* a Success badge does not go back to Processing
SuccessKept == \A i \in 1..StepCount : badges[i] = "Success" => badges'[i] # "Processing"

\* C8 as stated: a body whose current_step is the k-th stage and differs
\* from the last displayed step shows the stages before k as Success, stage k
\* as Processing and leaves the later ones; a body whose current_step is
\* queued or the last displayed step changes no badge; with non-decreasing
\* stages a Success badge never becomes Processing again.
C8_StageDisplay ==
  /\ [][Answered =>
          LET step == lastBody'.current_step
          IN IF step # lastStep /\ IndexOf(step) > 0
             THEN ShowsStage(IndexOf(step))
             ELSE badges' = badges]_vars
  /\ [][monotone' => SuccessKept]_vars

\* C8, amended: the above holds for bodies whose status is not completed; a
\* body whose status is completed shows all six stages as Success, whatever
\* its current_step.  With non-decreasing stages a Success badge never
\* becomes Processing again.
C8_StageDisplayUnlessCompleted ==
  /\ [][(Answered /\ lastBody'.status # "completed") =>
          LET step == lastBody'.current_step
          IN IF step # lastStep /\ IndexOf(step) > 0
             THEN ShowsStage(IndexOf(step)) /\ lastStep' = step
             ELSE badges' = badges /\ lastStep' = lastStep]_vars
  /\ [][(Answered /\ lastBody'.status = "completed") =>
          \A i \in 1..StepCount : badges'[i] = "Success"]_vars
  /\ [][monotone' => SuccessKept]_vars

C8_Witness ==
  /\ OnGraniteProcess
  /\ monotone
  /\ pollCount = 3
  /\ lastStep = "narration"
  /\ lastOutcome = "running"
  /\ badges = [i \in 1..StepCount |->
                 IF i < 4 THEN "Success" ELSE IF i = 4 THEN "Processing" ELSE "Pending"]

\* C10: the process page shows, as the source file name, the file submitted
\* with the job it polls, and the dash when that job had no file.
C10_SourceNameIsTheJobsFile ==
  OnGraniteProcess =>
    \E n \in 1..Len(jobFile) :
      /\ jobId = JobIdOf(n)
      /\ sourceHash = IF jobFile[n] = None THEN Dash ELSE jobFile[n]
\* C11: at most one submission request is in flight from the create page;
\* the Generate button is disabled exactly while one is, so no click starts a
\* second one; a loaded create page re-enables the button only when the
\* submission fails, and a successful submission leaves the create page for
\* the process page with the button still disabled and one job created.
C11_OneSubmissionInFlight ==
  /\ [](Len(submitReqs) <= 1)
  /\ []((page = "create" /\ loaded) => (btnDisabled <=> submitReqs # <<>>))
  /\ [][(page = "create" /\ btnDisabled) => submitReqs' \in {submitReqs, <<>>}]_vars
  /\ [][(page = "create" /\ btnDisabled /\ ~btnDisabled' /\ page' = "create" /\ loaded') =>
          (SubmitNotOk \/ SubmitThrows)]_vars
  /\ [][SubmitOk =>
          /\ btnDisabled
          /\ page' = "process"
          /\ nextJob' = nextJob + 1
          /\ submitReqs' = <<>>]_vars

C11_Witness ==
  /\ frontend = "granite" /\ page = "create" /\ loaded
  /\ btnDisabled
  /\ submitReqs = <<[file |-> None, description |-> <<"t">>]>>
  /\ fileInput = <<"a.pdf">>
  /\ localStorage.graniteJobId = JobIdOf(1)
====
